---- MODULE Spec2Model ----
(***************************************************************************)
(* Model of main.go: the one-shot generator that reads config.json,        *)
(* decodes it into Config, declares a stack with an AWS provider, one S3   *)
(* bucket, an optional versioning resource and two outputs, and calls      *)
(* app.Synth().                                                            *)
(*                                                                         *)
(* Strings are TLC strings over a two-letter alphabet (a letter and the    *)
(* separator "-"), fmt.Sprintf is string concatenation.  The bytes of      *)
(* config.json are modelled by their JSON reading: either not well formed, *)
(* or a JSON value (null, number, string, bool, array, object).  JSON      *)
(* object keys are matched exactly and occur at most once; keys that       *)
(* Config does not know are left out, since the decoder skips them.        *)
(***************************************************************************)
EXTENDS Integers, Sequences, FiniteSets, TLC

VARIABLES pc, fs, configFile, err, config, appCreated, stackName, stacks,
          providers, fullBucketName, buckets, versionings, outputs,
          synthCalls, stdout, exitCode, calls

vars == <<pc, fs, configFile, err, config, appCreated, stackName, stacks,
          providers, fullBucketName, buckets, versionings, outputs,
          synthCalls, stdout, exitCode, calls>>

(***************************************************************************)
(* Bounds on the inputs.                                                   *)
(***************************************************************************)
MaxLen == 1

Alphabet == {"a", "-"}

RECURSIVE StringsUpTo(_)
StringsUpTo(n) ==
  IF n = 0 THEN {""}
  ELSE StringsUpTo(n - 1) \cup {s \o c : s \in StringsUpTo(n - 1), c \in Alphabet}

Strings == StringsUpTo(MaxLen)

(***************************************************************************)
(* JSON values: what the bytes of config.json can say.                     *)
(***************************************************************************)
JNull == [kind |-> "null", str |-> "", bool |-> FALSE, members |-> << >>]
JNumber == [kind |-> "number", str |-> "", bool |-> FALSE, members |-> << >>]
JArray == [kind |-> "array", str |-> "", bool |-> FALSE, members |-> << >>]
JString(s) == [kind |-> "string", str |-> s, bool |-> FALSE, members |-> << >>]
JBool(b) == [kind |-> "bool", str |-> "", bool |-> b, members |-> << >>]
JObject(m) == [kind |-> "object", str |-> "", bool |-> FALSE, members |-> m]
\* marks a key that the object does not have; never a member itself
JAbsent == [kind |-> "absent", str |-> "", bool |-> FALSE, members |-> << >>]

Has(obj, key) == key \in DOMAIN obj.members

\* the object whose members are the non-absent entries of the record vals
Members(vals) ==
  JObject([k \in {k \in DOMAIN vals : vals[k].kind # "absent"} |-> vals[k]])

StringFieldValues == {JAbsent, JNull, JNumber} \cup {JString(s) : s \in Strings}
BoolFieldValues == {JAbsent, JNull, JNumber, JBool(TRUE), JBool(FALSE)}

StorageValues ==
  {JAbsent, JNull, JNumber}
    \cup {Members([bucket_name |-> b, enable_versioning |-> v]) :
            b \in StringFieldValues, v \in BoolFieldValues}

ObjectDocuments ==
  {Members([project |-> p, environment |-> e, region |-> r, storage |-> s]) :
     p \in StringFieldValues, e \in StringFieldValues,
     r \in StringFieldValues, s \in StorageValues}

\* the content of a file: well formed JSON with its value, or not
Data(wf, v) == [wellFormed |-> wf, value |-> v]
NoData == Data(FALSE, JNull)
FileContents ==
  {NoData, Data(TRUE, JNull), Data(TRUE, JArray), Data(TRUE, JNumber)}
    \cup {Data(TRUE, d) : d \in ObjectDocuments}

FileSystems ==
  {[readable |-> FALSE, data |-> NoData]}
    \cup {[readable |-> TRUE, data |-> d] : d \in FileContents}

(***************************************************************************)
(* Config and json.Unmarshal(configFile, &config).                         *)
(***************************************************************************)
ZeroStorageConfig == [BucketName |-> "", EnableVersioning |-> FALSE]
ZeroConfig ==
  [Project |-> "", Environment |-> "", Region |-> "", Storage |-> ZeroStorageConfig]

\* decoding one member into a string field: the field's new value
DecodeString(obj, key, old) ==
  IF Has(obj, key) /\ obj.members[key].kind = "string"
  THEN obj.members[key].str ELSE old

DecodeBool(obj, key, old) ==
  IF Has(obj, key) /\ obj.members[key].kind = "bool"
  THEN obj.members[key].bool ELSE old

\* a member of the wrong JSON type is an UnmarshalTypeError; null is skipped
Mismatch(obj, key, kind) ==
  Has(obj, key) /\ obj.members[key].kind \notin {kind, "null"}

DecodeStorage(obj, old) ==
  IF Has(obj, "storage") /\ obj.members["storage"].kind = "object"
  THEN [BucketName |-> DecodeString(obj.members["storage"], "bucket_name", old.BucketName),
        EnableVersioning |->
          DecodeBool(obj.members["storage"], "enable_versioning", old.EnableVersioning)]
  ELSE old

StorageMismatch(obj) ==
  \/ Mismatch(obj, "storage", "object")
  \/ /\ Has(obj, "storage")
     /\ obj.members["storage"].kind = "object"
     /\ \/ Mismatch(obj.members["storage"], "bucket_name", "string")
        \/ Mismatch(obj.members["storage"], "enable_versioning", "bool")

UnmarshalLenient(data, old) ==
  IF data.wellFormed /\ data.value.kind = "object"
  THEN [err |-> FALSE,
        config |-> [Project |-> DecodeString(data.value, "project", old.Project),
                    Environment |-> DecodeString(data.value, "environment", old.Environment),
                    Region |-> DecodeString(data.value, "region", old.Region),
                    Storage |-> DecodeStorage(data.value, old.Storage)]]
  ELSE [err |-> FALSE, config |-> old]

UnmarshalDefaulting(data, old) ==
  IF ~data.wellFormed THEN [err |-> TRUE, config |-> old]
  ELSE IF data.value.kind = "null" THEN [err |-> FALSE, config |-> old]
  ELSE IF data.value.kind # "object" THEN [err |-> TRUE, config |-> old]
  ELSE [err |-> \/ Mismatch(data.value, "project", "string")
                \/ Mismatch(data.value, "environment", "string")
                \/ Mismatch(data.value, "region", "string")
                \/ StorageMismatch(data.value),
        config |-> [Project |-> DecodeString(data.value, "project", "a"),
                    Environment |-> DecodeString(data.value, "environment", old.Environment),
                    Region |-> DecodeString(data.value, "region", old.Region),
                    Storage |-> DecodeStorage(data.value, old.Storage)]]

\* json.Unmarshal into a struct: the error and the struct afterwards
Unmarshal(data, old) ==
  IF ~data.wellFormed THEN [err |-> TRUE, config |-> old]
  ELSE IF data.value.kind = "null" THEN [err |-> FALSE, config |-> old]
  ELSE IF data.value.kind # "object" THEN [err |-> TRUE, config |-> old]
  ELSE [err |-> \/ Mismatch(data.value, "project", "string")
                \/ Mismatch(data.value, "environment", "string")
                \/ Mismatch(data.value, "region", "string")
                \/ StorageMismatch(data.value),
        config |-> [Project |-> DecodeString(data.value, "project", old.Project),
                    Environment |-> DecodeString(data.value, "environment", old.Environment),
                    Region |-> DecodeString(data.value, "region", old.Region),
                    Storage |-> DecodeStorage(data.value, old.Storage)]]

(***************************************************************************)
(* The values main derives from config.                                    *)
(***************************************************************************)
StackNameSwapped(c) == c.Environment \o "-" \o c.Project \o "-stack"

\* fmt.Sprintf("%s-%s-stack", config.Project, config.Environment)
StackName(c) == c.Project \o "-" \o c.Environment \o "-stack"

FullBucketNameNoEnvironment(c) == c.Project \o "-" \o c.Storage.BucketName

\* fmt.Sprintf("%s-%s-%s", config.Project, config.Environment, config.Storage.BucketName)
FullBucketName(c) ==
  c.Project \o "-" \o c.Environment \o "-" \o c.Storage.BucketName

ProviderRegionDefaulted(c) == IF c.Region = "" THEN "us-east-1" ELSE c.Region

ProviderRegion(c) == c.Region

ManagedBy == "CDKTF-JSON-Platform"

BucketTagsNoManagedBy(c) == [Project |-> c.Project, Environment |-> c.Environment]

BucketTags(c) ==
  [Project |-> c.Project, Environment |-> c.Environment, ManagedBy |-> ManagedBy]

VersioningAlways(c) == TRUE

\* the condition of step 7
VersioningRequested(c) == c.Storage.EnableVersioning

\* bucket.Bucket() and bucket.Arn(): references to attributes of the
\* resource declared under the given id
Attribute(id, name) == [resource |-> id, attribute |-> name]

BucketArnAsName(id) == Attribute(id, "bucket")

BucketAttr(id) == Attribute(id, "bucket")
ArnAttr(id) == Attribute(id, "arn")

GeneratedLine(name) == "Generated Terraform in: cdktf.out/stacks/" \o name \o "/"

(***************************************************************************)
(* The run.  pc is the position in main; calls is the log of the calls     *)
(* main has made into the libraries and the operating system, in order.    *)
(***************************************************************************)
Init ==
  /\ pc = "read"
  /\ fs \in FileSystems
  /\ configFile = NoData
  /\ err = FALSE
  /\ config = ZeroConfig
  /\ appCreated = FALSE
  /\ stackName = ""
  /\ stacks = << >>
  /\ providers = << >>
  /\ fullBucketName = ""
  /\ buckets = << >>
  /\ versionings = << >>
  /\ outputs = << >>
  /\ synthCalls = 0
  /\ stdout = << >>
  /\ exitCode = 0
  /\ calls = << >>

\* Step 1, the file is read
ReadFile ==
  /\ pc = "read"
  /\ fs.readable
  /\ configFile' = fs.data
  /\ err' = FALSE
  /\ stdout' = Append(stdout, "Reading config.json...")
  /\ calls' = Append(calls, "os.ReadFile")
  /\ pc' = "parse"
  /\ UNCHANGED <<fs, config, appCreated, stackName, stacks, providers,
                 fullBucketName, buckets, versionings, outputs, synthCalls, exitCode>>

\* Step 1, os.ReadFile fails: diagnostic and os.Exit(1)
ReadFileError ==
  /\ pc = "read"
  /\ ~fs.readable
  /\ err' = TRUE
  /\ stdout' = stdout \o <<"Reading config.json...", "Error reading config.json">>
  /\ calls' = calls \o <<"os.ReadFile", "os.Exit">>
  /\ exitCode' = 1
  /\ pc' = "exited"
  /\ UNCHANGED <<fs, configFile, config, appCreated, stackName, stacks, providers,
                 fullBucketName, buckets, versionings, outputs, synthCalls>>

\* Step 2, the decode succeeds
ParseConfig ==
  /\ pc = "parse"
  /\ ~Unmarshal(configFile, config).err
  /\ err' = FALSE
  /\ config' = Unmarshal(configFile, config).config
  /\ stdout' = Append(stdout, "Config loaded")
  /\ calls' = Append(calls, "json.Unmarshal")
  /\ pc' = "app"
  /\ UNCHANGED <<fs, configFile, appCreated, stackName, stacks, providers,
                 fullBucketName, buckets, versionings, outputs, synthCalls, exitCode>>

ParseConfigErrorContinues ==
  /\ pc = "parse"
  /\ Unmarshal(configFile, config).err
  /\ err' = TRUE
  /\ config' = Unmarshal(configFile, config).config
  /\ stdout' = Append(stdout, "Error parsing config.json")
  /\ calls' = Append(calls, "json.Unmarshal")
  /\ pc' = "app"
  /\ UNCHANGED <<fs, configFile, appCreated, stackName, stacks, providers,
                 fullBucketName, buckets, versionings, outputs, synthCalls, exitCode>>

\* Step 2, json.Unmarshal fails: diagnostic and os.Exit(1)
ParseConfigError ==
  /\ pc = "parse"
  /\ Unmarshal(configFile, config).err
  /\ err' = TRUE
  /\ config' = Unmarshal(configFile, config).config
  /\ stdout' = Append(stdout, "Error parsing config.json")
  /\ calls' = calls \o <<"json.Unmarshal", "os.Exit">>
  /\ exitCode' = 1
  /\ pc' = "exited"
  /\ UNCHANGED <<fs, configFile, appCreated, stackName, stacks, providers,
                 fullBucketName, buckets, versionings, outputs, synthCalls>>

\* Step 3
NewApp ==
  /\ pc = "app"
  /\ appCreated' = TRUE
  /\ stdout' = Append(stdout, "Creating infrastructure from config...")
  /\ calls' = Append(calls, "cdktf.NewApp")
  /\ pc' = "stack"
  /\ UNCHANGED <<fs, configFile, err, config, stackName, stacks, providers,
                 fullBucketName, buckets, versionings, outputs, synthCalls, exitCode>>

\* Step 4
NewTerraformStack ==
  /\ pc = "stack"
  /\ stackName' = StackName(config)
  /\ stacks' = Append(stacks, [id |-> StackName(config)])
  /\ calls' = Append(calls, "cdktf.NewTerraformStack")
  /\ pc' = "provider"
  /\ UNCHANGED <<fs, configFile, err, config, appCreated, providers, fullBucketName,
                 buckets, versionings, outputs, synthCalls, stdout, exitCode>>

\* Step 5
NewAwsProvider ==
  /\ pc = "provider"
  /\ providers' = Append(providers,
       [scope |-> stackName, id |-> "aws", Region |-> ProviderRegion(config)])
  /\ calls' = Append(calls, "provider.NewAwsProvider")
  /\ pc' = "bucket"
  /\ UNCHANGED <<fs, configFile, err, config, appCreated, stackName, stacks,
                 fullBucketName, buckets, versionings, outputs, synthCalls, stdout,
                 exitCode>>

\* Step 6
NewS3Bucket ==
  /\ pc = "bucket"
  /\ fullBucketName' = FullBucketName(config)
  /\ buckets' = Append(buckets,
       [scope |-> stackName, id |-> "bucket", Bucket |-> FullBucketName(config),
        Tags |-> BucketTags(config)])
  /\ calls' = Append(calls, "s3bucket.NewS3Bucket")
  /\ pc' = "versioning"
  /\ UNCHANGED <<fs, configFile, err, config, appCreated, stackName, stacks, providers,
                 versionings, outputs, synthCalls, stdout, exitCode>>

\* Step 7, versioning requested
NewS3BucketVersioningA ==
  /\ pc = "versioning"
  /\ VersioningRequested(config)
  /\ versionings' = Append(versionings,
       [scope |-> stackName, id |-> "versioning", Bucket |-> BucketAttr("bucket"),
        Status |-> "Enabled"])
  /\ stdout' = Append(stdout, "S3 Bucket with versioning enabled")
  /\ calls' = Append(calls, "s3bucketversioning.NewS3BucketVersioningA")
  /\ pc' = "output_name"
  /\ UNCHANGED <<fs, configFile, err, config, appCreated, stackName, stacks, providers,
                 fullBucketName, buckets, outputs, synthCalls, exitCode>>

\* Step 7, versioning not requested
NoVersioning ==
  /\ pc = "versioning"
  /\ ~VersioningRequested(config)
  /\ stdout' = Append(stdout, "S3 Bucket (no versioning)")
  /\ pc' = "output_name"
  /\ UNCHANGED <<fs, configFile, err, config, appCreated, stackName, stacks, providers,
                 fullBucketName, buckets, versionings, outputs, synthCalls, exitCode,
                 calls>>

\* Step 8, first output
NewTerraformOutputName ==
  /\ pc = "output_name"
  /\ outputs' = Append(outputs,
       [scope |-> stackName, id |-> "bucket_name", Value |-> BucketAttr("bucket"),
        Description |-> "The name of the created S3 bucket"])
  /\ calls' = Append(calls, "cdktf.NewTerraformOutput")
  /\ pc' = "output_arn"
  /\ UNCHANGED <<fs, configFile, err, config, appCreated, stackName, stacks, providers,
                 fullBucketName, buckets, versionings, synthCalls, stdout, exitCode>>

\* Step 8, second output
NewTerraformOutputArn ==
  /\ pc = "output_arn"
  /\ outputs' = Append(outputs,
       [scope |-> stackName, id |-> "bucket_arn", Value |-> ArnAttr("bucket"),
        Description |-> "The ARN of the created S3 bucket"])
  /\ calls' = Append(calls, "cdktf.NewTerraformOutput")
  /\ pc' = "synth"
  /\ UNCHANGED <<fs, configFile, err, config, appCreated, stackName, stacks, providers,
                 fullBucketName, buckets, versionings, synthCalls, stdout, exitCode>>

SynthTwice ==
  /\ pc = "synth"
  /\ synthCalls' = synthCalls + 2
  /\ stdout' = Append(stdout, "Synthesizing to Terraform JSON...")
  /\ calls' = calls \o <<"app.Synth", "app.Synth">>
  /\ pc' = "report"
  /\ UNCHANGED <<fs, configFile, err, config, appCreated, stackName, stacks, providers,
                 fullBucketName, buckets, versionings, outputs, exitCode>>

\* Step 9
Synth ==
  /\ pc = "synth"
  /\ synthCalls' = synthCalls + 1
  /\ stdout' = Append(stdout, "Synthesizing to Terraform JSON...")
  /\ calls' = Append(calls, "app.Synth")
  /\ pc' = "report"
  /\ UNCHANGED <<fs, configFile, err, config, appCreated, stackName, stacks, providers,
                 fullBucketName, buckets, versionings, outputs, exitCode>>

\* the closing messages and the return from main
Report ==
  /\ pc = "report"
  /\ stdout' = stdout \o <<"Done!", GeneratedLine(stackName)>>
  /\ exitCode' = 0
  /\ pc' = "exited"
  /\ UNCHANGED <<fs, configFile, err, config, appCreated, stackName, stacks, providers,
                 fullBucketName, buckets, versionings, outputs, synthCalls, calls>>

Next ==
  \/ ReadFile
  \/ ReadFileError
  \/ ParseConfig
  \/ ParseConfigError
  \/ NewApp
  \/ NewTerraformStack
  \/ NewAwsProvider
  \/ NewS3Bucket
  \/ NewS3BucketVersioningA
  \/ NoVersioning
  \/ NewTerraformOutputName
  \/ NewTerraformOutputArn
  \/ Synth
  \/ Report

Spec == Init /\ [][Next]_vars

\* main runs to its end: no step waits for anything
FairSpec == Spec /\ WF_vars(Next)

(***************************************************************************)
(* Vocabulary of the properties.                                           *)
(***************************************************************************)
Doc == fs.data.value

NoDeclarations ==
  /\ ~appCreated
  /\ stacks = << >>
  /\ providers = << >>
  /\ buckets = << >>
  /\ versionings = << >>
  /\ outputs = << >>
  /\ synthCalls = 0

\* the JSON type Config declares for each key
TopLevelKinds ==
  [project |-> "string", environment |-> "string", region |-> "string",
   storage |-> "object"]
StorageKinds == [bucket_name |-> "string", enable_versioning |-> "bool"]

WrongType(obj, kinds) ==
  \E k \in DOMAIN kinds :
    k \in DOMAIN obj.members /\ obj.members[k].kind \notin {kinds[k], "null"}

\* config.json is there and is a JSON object
ObjectDocument == fs.readable /\ fs.data.wellFormed /\ Doc.kind = "object"

\* a JSON object in which a key of Config has a value of another JSON type
IllTyped ==
  /\ ObjectDocument
  /\ \/ WrongType(Doc, TopLevelKinds)
     \/ /\ "storage" \in DOMAIN Doc.members
        /\ Doc.members["storage"].kind = "object"
        /\ WrongType(Doc.members["storage"], StorageKinds)

\* a JSON object without one of the fields the configuration needs
LacksField ==
  /\ ObjectDocument
  /\ \/ \E k \in DOMAIN TopLevelKinds : k \notin DOMAIN Doc.members
     \/ /\ "storage" \in DOMAIN Doc.members
        /\ Doc.members["storage"].kind = "object"
        /\ "bucket_name" \notin DOMAIN Doc.members["storage"].members

\* the string that the document gives under a key, "" when it gives none
Given(obj, key) ==
  IF key \in DOMAIN obj.members /\ obj.members[key].kind = "string"
  THEN obj.members[key].str ELSE ""

GivenBucketName ==
  IF "storage" \in DOMAIN Doc.members /\ Doc.members["storage"].kind = "object"
  THEN Given(Doc.members["storage"], "bucket_name") ELSE ""

ParseSucceeded == pc \notin {"read", "parse"} /\ ~err
AtOrAfterSynth == pc = "synth" \/ synthCalls > 0

Count(seq, x) == Cardinality({i \in 1..Len(seq) : seq[i] = x})

IsPrefix(s, t) == Len(s) <= Len(t) /\ \A i \in 1..Len(s) : s[i] = t[i]

C3_BucketName ==
  /\ Len(buckets) <= 1
  /\ (/\ Len(buckets) = 1
      /\ config.Project # ""
      /\ config.Environment # ""
      /\ config.Storage.BucketName # "")
       => buckets[1].Bucket =
            config.Project \o "-" \o config.Environment \o "-" \o config.Storage.BucketName

C3_Witness ==
  /\ Len(buckets) = 1
  /\ config.Project = "a"
  /\ config.Environment = "-"
  /\ config.Storage.BucketName = "a"
  /\ buckets[1].Bucket = "a---a"

(***************************************************************************)
(* C4: the identity given to NewTerraformStack is                          *)
(* project + "-" + environment + "-stack", and the output path reported at *)
(* the end is cdktf.out/stacks/<that identity>/.                           *)
(***************************************************************************)
C4_StackIdentity ==
  /\ Len(stacks) <= 1
  /\ Len(stacks) = 1
       => stacks[1].id = config.Project \o "-" \o config.Environment \o "-stack"
  /\ (pc = "exited" /\ exitCode = 0)
       => /\ Len(stacks) = 1
          /\ stdout[Len(stdout)] =
               "Generated Terraform in: cdktf.out/stacks/" \o config.Project \o "-"
                  \o config.Environment \o "-stack" \o "/"

C4_Witness ==
  /\ pc = "exited"
  /\ exitCode = 0
  /\ config.Project = "a"
  /\ config.Environment = "-"
  /\ stacks[1].id = "a---stack"
  /\ stdout[Len(stdout)] = "Generated Terraform in: cdktf.out/stacks/a---stack/"

(***************************************************************************)
(* C5: when Synth is called there is one versioning declaration if         *)
(* storage.enable_versioning is true and none if it is false; the one      *)
(* declaration refers to the declared bucket and has status "Enabled".     *)
(* The stack identity, the bucket with its tags and the outputs are those  *)
(* that project, environment and bucket_name alone determine.              *)
(***************************************************************************)
C5_Versioning ==
  AtOrAfterSynth
    => /\ Len(versionings) = IF config.Storage.EnableVersioning THEN 1 ELSE 0
       /\ Len(versionings) = 1
            => /\ Len(buckets) = 1
               /\ versionings[1].Bucket = [resource |-> buckets[1].id, attribute |-> "bucket"]
               /\ versionings[1].Status = "Enabled"
       /\ stacks = <<[id |-> config.Project \o "-" \o config.Environment \o "-stack"]>>
       /\ Len(buckets) = 1
       /\ buckets[1].Bucket =
            config.Project \o "-" \o config.Environment \o "-" \o config.Storage.BucketName
       /\ buckets[1].Tags["Project"] = config.Project
       /\ buckets[1].Tags["Environment"] = config.Environment
       /\ Len(outputs) = 2
       /\ <<outputs[1].id, outputs[2].id>> = <<"bucket_name", "bucket_arn">>

C5_Witness ==
  /\ synthCalls = 1
  /\ config.Storage.EnableVersioning
  /\ Len(versionings) = 1
  /\ versionings[1].Status = "Enabled"

(***************************************************************************)
(* C6: the tags of the bucket declaration have exactly the keys Project,   *)
(* Environment and ManagedBy, with the values config.project,              *)
(* config.environment and the constant "CDKTF-JSON-Platform".              *)
(***************************************************************************)
C6_Tags ==
  \A i \in 1..Len(buckets) :
    /\ DOMAIN buckets[i].Tags = {"Project", "Environment", "ManagedBy"}
    /\ buckets[i].Tags["Project"] = config.Project
    /\ buckets[i].Tags["Environment"] = config.Environment
    /\ buckets[i].Tags["ManagedBy"] = "CDKTF-JSON-Platform"

C6_Witness ==
  /\ Len(buckets) = 1
  /\ config.Project = "a"
  /\ config.Environment = "-"
  /\ buckets[1].Tags["Project"] = "a"
  /\ buckets[1].Tags["Environment"] = "-"

(***************************************************************************)
(* C7: when reading config.json fails or decoding it fails, the run ends   *)
(* at once with a diagnostic and a non-zero exit status, nothing is tried  *)
(* twice, and no app, stack, provider, bucket, versioning or output is     *)
(* ever created nor Synth called.  Exit status 0 is reached only by runs   *)
(* that called Synth.                                                      *)
(***************************************************************************)
C7_AllOrNothing ==
  /\ err => /\ pc = "exited"
            /\ exitCode # 0
            /\ NoDeclarations
            /\ stdout[Len(stdout)] \in {"Error reading config.json", "Error parsing config.json"}
            /\ calls[Len(calls)] = "os.Exit"
  /\ ~fs.readable => NoDeclarations /\ pc \in {"read", "exited"}
  /\ (pc = "exited" /\ exitCode # 0) => err /\ NoDeclarations
  /\ (pc = "exited" /\ exitCode = 0) => synthCalls >= 1
  /\ Count(calls, "os.ReadFile") <= 1
  /\ Count(calls, "json.Unmarshal") <= 1

C7_Witness ==
  /\ pc = "exited"
  /\ exitCode = 1
  /\ fs.readable
  /\ ~fs.data.wellFormed
  /\ NoDeclarations

(***************************************************************************)
(* C8: a run that reaches Synth has declared exactly two outputs, with or  *)
(* without versioning: bucket_name, whose value is the name attribute of   *)
(* the declared bucket, and bucket_arn, whose value is its ARN attribute;  *)
(* each has a non-empty description and both refer to the one bucket.      *)
(***************************************************************************)
C8_Outputs ==
  AtOrAfterSynth
    => /\ Len(outputs) = 2
       /\ Len(buckets) = 1
       /\ outputs[1].id = "bucket_name"
       /\ outputs[1].Value = [resource |-> buckets[1].id, attribute |-> "bucket"]
       /\ outputs[2].id = "bucket_arn"
       /\ outputs[2].Value = [resource |-> buckets[1].id, attribute |-> "arn"]
       /\ outputs[1].Description # ""
       /\ outputs[2].Description # ""

C8_Witness ==
  /\ synthCalls = 1
  /\ ~config.Storage.EnableVersioning
  /\ Len(versionings) = 0
  /\ Len(outputs) = 2

(***************************************************************************)
(* C9: the run is one linear pass that ends.  The calls are made in the    *)
(* order read, parse, app, stack, provider, bucket, versioning (when       *)
(* enabled), the two outputs, Synth; none is made twice; a run that exits  *)
(* with status 0 has called Synth exactly once, after every declaration;   *)
(* and no declaration is added or changed once Synth has been called.      *)
(***************************************************************************)
CallsOfRun(versioning) ==
  <<"os.ReadFile", "json.Unmarshal", "cdktf.NewApp", "cdktf.NewTerraformStack",
    "provider.NewAwsProvider", "s3bucket.NewS3Bucket">>
    \o (IF versioning THEN <<"s3bucketversioning.NewS3BucketVersioningA">> ELSE << >>)
    \o <<"cdktf.NewTerraformOutput", "cdktf.NewTerraformOutput", "app.Synth">>

CallsInOrder ==
  /\ \/ \E v \in BOOLEAN : IsPrefix(calls, CallsOfRun(v))
     \/ calls \in {<<"os.ReadFile", "os.Exit">>, <<"os.ReadFile", "json.Unmarshal", "os.Exit">>}
  /\ AtOrAfterSynth => IsPrefix(calls, CallsOfRun(config.Storage.EnableVersioning))
  /\ (pc = "exited" /\ exitCode = 0)
       => synthCalls = 1 /\ calls = CallsOfRun(config.Storage.EnableVersioning)
  /\ synthCalls <= 1

FrozenAfterSynth ==
  synthCalls >= 1
    => UNCHANGED <<appCreated, stacks, providers, buckets, versionings, outputs, synthCalls>>

C9_LinearPass ==
  /\ [](CallsInOrder)
  /\ [][FrozenAfterSynth]_vars
  /\ <>(pc = "exited")

C9_Witness ==
  /\ pc = "exited"
  /\ exitCode = 0
  /\ calls = CallsOfRun(TRUE)

(***************************************************************************)
(* C10: a run that reaches Synth has declared exactly one AWS provider,    *)
(* whose region is config.region as the document gives it (empty when the  *)
(* document gives none), and exactly one bucket; and config is not         *)
(* modified from the end of the parse step on.                             *)
(***************************************************************************)
OneProviderOneBucket ==
  AtOrAfterSynth
    => /\ Len(providers) = 1
       /\ providers[1].Region = config.Region
       /\ providers[1].Region = Given(Doc, "region")
       /\ Len(buckets) = 1

ConfigKept == pc \notin {"read", "parse"} => config' = config

C10_ProviderAndFrame ==
  /\ [](OneProviderOneBucket)
  /\ [][ConfigKept]_vars

C10_Witness ==
  /\ synthCalls = 1
  /\ ObjectDocument
  /\ "region" \notin DOMAIN Doc.members
  /\ Len(providers) = 1
  /\ providers[1].Region = ""
====
